---- MODULE Spec2Model ----
(***************************************************************************)
(* wikiweave: the CursorManager text transforms (packages/core/src/        *)
(* cursor-manager.ts, kept in src/packages/core/src/index.ts lines 24-205) *)
(* acting on one textarea: its value (the buffer) and its selection; the    *)
(* toolbar plugins that call them; debounce (packages/core/src/utils.ts,   *)
(* kept in src/unnamed/part_001) and the MarkdownEditor that uses it       *)
(* (src/packages/core/src/parser.ts lines 733-806).                        *)
(*                                                                         *)
(* A string is a sequence of one-character strings.  A JavaScript number   *)
(* handed to setSelection by a caller is a record: k = "num" with the      *)
(* number doubled in `twice` (so that n and n + 0.5 are both values),      *)
(* k = "nan", or k = "undefined" for an omitted argument.  A string        *)
(* argument that may be null is a record [null, s].                        *)
(***************************************************************************)
EXTENDS Integers, Sequences, FiniteSets, TLC

VARIABLES
    value,           \* textarea.value
    selectionStart,  \* textarea.selectionStart
    selectionEnd,    \* textarea.selectionEnd
    lastOp,          \* the CursorManager method called last ("init" before any)
    pre,             \* the textarea as it was when that call started
    result,          \* the TextInsertionResult it returned, if it returned one
    err,             \* the message of the Error it threw, "" if it returned
    cursorSelection, \* the CursorSelection returned, if the call was getSelection
    pc,              \* a transform taken step by step: "idle", or "written"
                     \* between textarea.value = newValue and this.setSelection
    pending,         \* <<newStart, newEnd>> that transform has yet to set
    awaiting,        \* the plugin executions suspended at an await, in click order
    timeoutId,       \* debounce's timeoutId, 0 for null
    timers,          \* the timers pending in the window
    calls,           \* the arguments of the calls of the debounced function so far
    lastRun,         \* the last run of the function it debounces
    preview,         \* preview.innerHTML of the editor
    reported,        \* the content the host has: the one onChange was called
                     \* with last, the initial content before
    lineTransform,   \* the line transform modifyLines was called with
    lineResult,      \* the LineModificationResult it returned
    wikiLink,        \* the WikiLinkData render was called with
    wikiText,        \* the text parse was called with
    matches          \* the matches parse produced, left to right

\* What lies outside the CursorManager methods called on their own
\* The line operation of the transform engine and the wiki-link codec
engine == <<lineTransform, lineResult, wikiLink, wikiText, matches>>

detached ==
    <<pc, pending, awaiting, timeoutId, timers, calls, lastRun, preview, reported,
      lineTransform, lineResult, wikiLink, wikiText, matches>>

vars == <<value, selectionStart, selectionEnd, lastOp, pre, result, err,
          cursorSelection, pc, pending, awaiting, timeoutId, timers, calls,
          lastRun, preview, reported, lineTransform, lineResult, wikiLink,
          wikiText, matches>>

----------------------------------------------------------------------------
(* Bounds *)

\* Calls are explored on buffers of at most MaxLen characters.
MaxLen == 3
\* Inserted texts, prefixes and suffixes have at most MaxText characters.
MaxText == 2

\* The characters of the buffers a call may start from, and of the texts,
\* prefixes and suffixes handed to the calls.
BufferChars == {"a", "b"}
TextChars == {"*"}

RECURSIVE SeqsUpTo(_, _)
SeqsUpTo(chars, n) ==
    IF n = 0 THEN {<<>>}
    ELSE LET shorter == SeqsUpTo(chars, n - 1)
         IN  shorter \cup
             {Append(s, c) : s \in {t \in shorter : Len(t) = n - 1}, c \in chars}

Buffers == SeqsUpTo(BufferChars, MaxLen)
Texts == SeqsUpTo(TextChars, MaxText)

Min(a, b) == IF a < b THEN a ELSE b
Max(a, b) == IF a < b THEN b ELSE a

----------------------------------------------------------------------------
(* Argument values *)

Str(s) == [null |-> FALSE, s |-> s]
Null == [null |-> TRUE, s |-> <<>>]
MaybeTexts == {Str(s) : s \in Texts} \cup {Null}

Num2(t) == [k |-> "num", twice |-> t]
Num(n) == Num2(2 * n)
NaN == [k |-> "nan", twice |-> 0]
Undefined == [k |-> "undefined", twice |-> 0]
\* The integers -1 .. MaxLen + 1, the fraction 1.5, and NaN
Numbers == {Num(n) : n \in -1 .. MaxLen + 1} \cup {Num2(3), NaN}

\* JavaScript's < and > on numbers: false as soon as one side is NaN.
JsLess(a, b) == a.k = "num" /\ b.k = "num" /\ a.twice < b.twice
JsGreater(a, b) == JsLess(b, a)

\* Web IDL conversion of a number to unsigned long: NaN is 0, the fraction is
\* dropped, and the result is taken modulo 2^32.  A negative integer t becomes
\* t + 2^32, which is beyond every buffer length and beyond the integers of
\* the model checker: the largest integer stands for it.
ToUnsignedLong(x) ==
    IF x.k # "num" THEN 0
    ELSE LET t == IF x.twice >= 0 THEN x.twice \div 2 ELSE -((-x.twice) \div 2)
         IN  IF t >= 0 THEN t ELSE 2147483647

----------------------------------------------------------------------------
(* The textarea (DOM) operations the code calls *)

\* String.prototype.substring(a, b): both ends clamped to [0, length], swapped
\* when a > b.
Substring(s, a, b) ==
    LET ca == Max(0, Min(a, Len(s)))
        cb == Max(0, Min(b, Len(s)))
    IN  SubSeq(s, Min(ca, cb) + 1, Max(ca, cb))

\* String.prototype.substring(a): to the end of the string.
SubstringFrom(s, a) == Substring(s, a, Len(s))

\* textarea.setSelectionRange(start, end): both converted to unsigned long,
\* clamped to the length of the value; an end before the start collapses the
\* selection at the end.
\* (mutant) the arguments stored as converted, not normalised
SetSelectionRange_Raw(len, start, endPos) ==
    <<ToUnsignedLong(start), ToUnsignedLong(endPos)>>

SetSelectionRange(len, start, endPos) ==
    LET s == Min(ToUnsignedLong(start), len)
        e == Min(ToUnsignedLong(endPos), len)
    IN  IF e < s THEN <<e, e>> ELSE <<s, e>>

\* textarea.value = v: a value that differs from the old one moves the
\* cursor to the end of the text and unselects.
\* (mutant) the selection kept as it is
SelectionAfterValueSet_Kept(old, new, s, e) == <<s, e>>

SelectionAfterValueSet(old, new, s, e) ==
    IF new # old THEN <<Len(new), Len(new)>> ELSE <<s, e>>

----------------------------------------------------------------------------
(* CursorManager: the computations *)

\* (mutant) text taken from start to the end of the value
GetSelection_TextToEnd(v, s, e) ==
    [start |-> s, end |-> e, hasSelection |-> s # e, text |-> SubstringFrom(v, s)]

\* getSelection: { start, end, hasSelection, text }
GetSelection(v, s, e) ==
    [start |-> s, end |-> e, hasSelection |-> s # e, text |-> Substring(v, s, e)]

NoError == ""

\* (mutant) the check `endPos < start` left out
SetSelectionError_NoOrderCheck(len, start, endPos) ==
    IF JsLess(start, Num(0)) THEN "start must be a non-negative number"
    ELSE IF JsGreater(start, Num(len)) THEN "start position exceeds textarea length"
    ELSE IF JsLess(endPos, Num(0)) THEN "end must be a non-negative number"
    ELSE IF JsGreater(endPos, Num(len)) THEN "end position exceeds textarea length"
    ELSE NoError

\* setSelection's checks, in the order of the code; endPos is end ?? start.
\* (typeof x !== 'number' is false of every number, NaN included.)
SetSelectionError(len, start, endPos) ==
    IF JsLess(start, Num(0)) THEN "start must be a non-negative number"
    ELSE IF JsGreater(start, Num(len)) THEN "start position exceeds textarea length"
    ELSE IF JsLess(endPos, Num(0)) THEN "end must be a non-negative number"
    ELSE IF JsLess(endPos, start) THEN "end must be greater than or equal to start"
    ELSE IF JsGreater(endPos, Num(len)) THEN "end position exceeds textarea length"
    ELSE NoError

\* const endPos = end !== undefined ? end : start
EndPos(start, end) == IF end.k # "undefined" THEN end ELSE start

\* (mutant) the selected text is kept in front of the rest
InsertNewValue_KeepSelected(v, start, end, text) ==
    Substring(v, 0, start) \o text \o SubstringFrom(v, start)

\* insertText: before + text + after
InsertNewValue(v, start, end, text) ==
    Substring(v, 0, start) \o text \o SubstringFrom(v, end)

\* (mutant) the caret measured from the end of the old selection
InsertNewRange_FromEnd(start, end, text, selectInserted) ==
    IF selectInserted
    THEN <<start, start + Len(text)>>
    ELSE <<end + Len(text), end + Len(text)>>

\* (mutant) the inserted text is selected whatever selectInserted is
InsertNewRange_SelectAlways(start, end, text, selectInserted) ==
    <<start, start + Len(text)>>

\* insertText: <<newStart, newEnd>>
InsertNewRange(start, end, text, selectInserted) ==
    IF selectInserted
    THEN <<start, start + Len(text)>>
    ELSE <<start + Len(text), start + Len(text)>>

\* wrapSelection: prefix + selection.text + suffix
WrappedText(selection, prefix, suffix) == prefix \o selection.text \o suffix

\* (mutant) the text after the selection taken from the start of the selection
WrapNewValue_AfterFromStart(v, selection, prefix, suffix) ==
    Substring(v, 0, selection.start) \o WrappedText(selection, prefix, suffix)
        \o SubstringFrom(v, selection.start)

\* wrapSelection: before + wrappedText + after
WrapNewValue(v, selection, prefix, suffix) ==
    Substring(v, 0, selection.start) \o WrappedText(selection, prefix, suffix)
        \o SubstringFrom(v, selection.end)

\* (mutant) no branch for the caret: it falls into the two other cases
WrapNewRange_NoCaretCase(selection, prefix, suffix, selectWrapped) ==
    LET originalStart == selection.start
    IN  IF selectWrapped
        THEN <<originalStart + Len(prefix),
               originalStart + Len(prefix) + Len(selection.text)>>
        ELSE <<originalStart + Len(WrappedText(selection, prefix, suffix)),
               originalStart + Len(WrappedText(selection, prefix, suffix))>>

\* (mutant) selectWrapped selects the whole wrapped span, markers included
WrapNewRange_SelectWholeSpan(selection, prefix, suffix, selectWrapped) ==
    LET originalStart == selection.start
    IN  IF ~selection.hasSelection
        THEN <<originalStart + Len(prefix), originalStart + Len(prefix)>>
        ELSE IF selectWrapped
        THEN <<originalStart,
               originalStart + Len(WrappedText(selection, prefix, suffix))>>
        ELSE <<originalStart + Len(WrappedText(selection, prefix, suffix)),
               originalStart + Len(WrappedText(selection, prefix, suffix))>>

\* (mutant) without selectWrapped the caret stops in front of the suffix
WrapNewRange_CaretBeforeSuffix(selection, prefix, suffix, selectWrapped) ==
    LET originalStart == selection.start
    IN  IF ~selection.hasSelection
        THEN <<originalStart + Len(prefix), originalStart + Len(prefix)>>
        ELSE IF selectWrapped
        THEN <<originalStart + Len(prefix),
               originalStart + Len(prefix) + Len(selection.text)>>
        ELSE <<originalStart + Len(prefix) + Len(selection.text),
               originalStart + Len(prefix) + Len(selection.text)>>

\* wrapSelection: <<newStart, newEnd>>
WrapNewRange(selection, prefix, suffix, selectWrapped) ==
    LET originalStart == selection.start
    IN  IF ~selection.hasSelection
        THEN <<originalStart + Len(prefix), originalStart + Len(prefix)>>
        ELSE IF selectWrapped
        THEN <<originalStart + Len(prefix),
               originalStart + Len(prefix) + Len(selection.text)>>
        ELSE <<originalStart + Len(WrappedText(selection, prefix, suffix)),
               originalStart + Len(WrappedText(selection, prefix, suffix))>>

----------------------------------------------------------------------------
(* State *)

NoResult == [returned |-> FALSE, newStart |-> 0, newEnd |-> 0, modified |-> FALSE]
Returned(range) ==
    [returned |-> TRUE, newStart |-> range[1], newEnd |-> range[2], modified |-> TRUE]

HelloWorld == <<"H", "e", "l", "l", "o", " ", "W", "o", "r", "l", "d">>
HelloSpace == <<"H", "e", "l", "l", "o", " ">>

\* The states of the examples in the documentation: "World" selected in
\* "Hello World"; the cursor at the end of "Hello ".
DocumentedStates ==
    { [value |-> HelloWorld, start |-> 6, end |-> 11],
      [value |-> HelloSpace, start |-> 6, end |-> 6] }

Snapshot == [value |-> value, start |-> selectionStart, end |-> selectionEnd]

\* No CursorSelection returned
NoSelection == [start |-> 0, end |-> 0, hasSelection |-> FALSE, text |-> <<>>]

NoRange == <<0, 0>>
NoTimeout == 0
\* fn has not run: no call has number 0
NoRun == [call |-> 0, args |-> ""]
NoPreview == <<>>
NotReported == [called |-> FALSE, content |-> <<>>]
NoTransform == "none"
NoLineResult ==
    [newContent |-> <<>>, affectedLines |-> <<>>, newCursorStart |-> 0,
     newCursorEnd |-> 0]
NoLink == [target |-> <<>>, display |-> <<>>, section |-> Null]
NoText == <<>>
NoMatches == <<>>

\* modifyLines, render and parse not called
EngineIdle ==
    /\ lineTransform = NoTransform
    /\ lineResult = NoLineResult
    /\ wikiLink = NoLink
    /\ wikiText = NoText
    /\ matches = NoMatches

\* No transform under way, no plugin suspended, no timer set, no editor
\* around the textarea.
Detached ==
    /\ pc = "idle"
    /\ pending = NoRange
    /\ awaiting = <<>>
    /\ timeoutId = NoTimeout
    /\ timers = {}
    /\ calls = <<>>
    /\ lastRun = NoRun
    /\ preview = NoPreview
    /\ reported = NotReported
    /\ EngineIdle

NoCallYet ==
    /\ lastOp = "init"
    /\ pre = Snapshot
    /\ result = NoResult
    /\ err = NoError
    /\ cursorSelection = NoSelection
    /\ Detached

\* A new textarea, empty with the cursor at 0, or the textarea of one of the
\* documented examples.
Init ==
    /\ \/ /\ value = <<>>
          /\ selectionStart = 0
          /\ selectionEnd = 0
       \/ \E d \in DocumentedStates :
             /\ value = d.value
             /\ selectionStart = d.start
             /\ selectionEnd = d.end
    /\ NoCallYet

\* A textarea as the user left it: some text, and the cursor or a selection
\* somewhere in it.
UserInit ==
    /\ \/ /\ value \in Buffers
          /\ selectionStart \in 0 .. Len(value)
          /\ selectionEnd \in selectionStart .. Len(value)
       \/ \E d \in DocumentedStates :
             /\ value = d.value
             /\ selectionStart = d.start
             /\ selectionEnd = d.end
    /\ NoCallYet

\* Calls are explored on the buffers within the bound and on the documented
\* examples.
Explored == Len(value) <= MaxLen \/ Snapshot \in DocumentedStates

----------------------------------------------------------------------------
(* CursorManager: the methods *)

\* setSelection(textarea, start, end): what the call does to the textarea.
\* (focus() changes nothing modelled here.)
SetSelectionCall(start, end) ==
    LET endPos == EndPos(start, end)
        e == SetSelectionError(Len(value), start, endPos)
        range == SetSelectionRange(Len(value), start, endPos)
    IN  /\ lastOp' = "setSelection"
        /\ err' = e
        /\ result' = NoResult
        /\ selectionStart' = IF e = NoError THEN range[1] ELSE selectionStart
        /\ selectionEnd' = IF e = NoError THEN range[2] ELSE selectionEnd
        /\ UNCHANGED value

\* After textarea.value = newValue: this.setSelection(textarea, newStart,
\* newEnd) and the return of { newStart, newEnd, modified: true }.  When
\* setSelection throws, the value is written already.
CommitTransform(newValue, new) ==
    LET reset == SelectionAfterValueSet(value, newValue, selectionStart, selectionEnd)
        e == SetSelectionError(Len(newValue), Num(new[1]), Num(new[2]))
        range == SetSelectionRange(Len(newValue), Num(new[1]), Num(new[2]))
    IN  /\ value' = newValue
        /\ err' = e
        /\ result' = IF e = NoError THEN Returned(new) ELSE NoResult
        /\ selectionStart' = IF e = NoError THEN range[1] ELSE reset[1]
        /\ selectionEnd' = IF e = NoError THEN range[2] ELSE reset[2]

\* (mutant) no check of text: a missing text is inserted as no text
InsertTextCall_NoNullCheck(op, text, selectInserted) ==
    /\ lastOp' = op
    /\ CommitTransform(
           InsertNewValue(value, selectionStart, selectionEnd, text.s),
           InsertNewRange(selectionStart, selectionEnd, text.s, selectInserted))

\* insertText(textarea, text, selectInserted), called as `op`
InsertTextCall(op, text, selectInserted) ==
    /\ lastOp' = op
    /\ IF text.null
       THEN /\ err' = "text is required"
            /\ result' = NoResult
            /\ UNCHANGED <<value, selectionStart, selectionEnd>>
       ELSE CommitTransform(
                InsertNewValue(value, selectionStart, selectionEnd, text.s),
                InsertNewRange(selectionStart, selectionEnd, text.s, selectInserted))

\* wrapSelection(textarea, prefix, suffix, selectWrapped)
WrapSelectionCall(prefix, suffix, selectWrapped) ==
    /\ lastOp' = "wrapSelection"
    /\ IF prefix.null \/ suffix.null
       THEN /\ err' = IF prefix.null THEN "prefix is required" ELSE "suffix is required"
            /\ result' = NoResult
            /\ UNCHANGED <<value, selectionStart, selectionEnd>>
       ELSE LET selection == GetSelection(value, selectionStart, selectionEnd)
            IN  CommitTransform(
                    WrapNewValue(value, selection, prefix.s, suffix.s),
                    WrapNewRange(selection, prefix.s, suffix.s, selectWrapped))

\* setSelection(textarea, start, end?)
SetSelection ==
    /\ Explored
    /\ pre' = Snapshot
    /\ cursorSelection' = NoSelection
    /\ UNCHANGED detached
    /\ \E start \in Numbers, end \in Numbers \cup {Undefined} :
          SetSelectionCall(start, end)

\* insertText(textarea, text, selectInserted = false)
InsertText ==
    /\ Explored
    /\ pre' = Snapshot
    /\ cursorSelection' = NoSelection
    /\ UNCHANGED detached
    /\ \E text \in MaybeTexts, selectInserted \in BOOLEAN :
          InsertTextCall("insertText", text, selectInserted)

\* replaceSelection(textarea, replacement) = insertText(textarea, replacement, false)
ReplaceSelection ==
    /\ Explored
    /\ pre' = Snapshot
    /\ cursorSelection' = NoSelection
    /\ UNCHANGED detached
    /\ \E replacement \in MaybeTexts :
          InsertTextCall("replaceSelection", replacement, FALSE)

\* wrapSelection(textarea, prefix, suffix, selectWrapped = false)
WrapSelection ==
    /\ Explored
    /\ pre' = Snapshot
    /\ cursorSelection' = NoSelection
    /\ UNCHANGED detached
    /\ \E prefix \in MaybeTexts, suffix \in MaybeTexts, selectWrapped \in BOOLEAN :
          WrapSelectionCall(prefix, suffix, selectWrapped)

\* getSelection(textarea)
GetSelectionCall ==
    /\ Explored
    /\ pre' = Snapshot
    /\ lastOp' = "getSelection"
    /\ cursorSelection' = GetSelection(value, selectionStart, selectionEnd)
    /\ result' = NoResult
    /\ err' = NoError
    /\ UNCHANGED <<value, selectionStart, selectionEnd>>
    /\ UNCHANGED detached

Next ==
    \/ GetSelectionCall
    \/ SetSelection
    \/ InsertText
    \/ ReplaceSelection
    \/ WrapSelection

Spec == Init /\ [][Next]_vars

\* One transform, as the first call on a textarea the user has left: every
\* transform applied to every buffer and selection within the bounds.
FirstInsertText == lastOp = "init" /\ InsertText
FirstReplaceSelection == lastOp = "init" /\ ReplaceSelection
FirstWrapSelection == lastOp = "init" /\ WrapSelection

TransformNext == FirstInsertText \/ FirstReplaceSelection \/ FirstWrapSelection

TransformSpec == UserInit /\ [][TransformNext]_vars

----------------------------------------------------------------------------
(* A transform step by step: the write of the value, then the selection *)

\* insertText / wrapSelection up to and including textarea.value = newValue,
\* with newStart and newEnd computed and not set yet.
WriteValue(op, newValue, new) ==
    LET reset == SelectionAfterValueSet(value, newValue, selectionStart, selectionEnd)
    IN  /\ lastOp' = op
        /\ value' = newValue
        /\ selectionStart' = reset[1]
        /\ selectionEnd' = reset[2]
        /\ pending' = new
        /\ pc' = "written"
        /\ result' = NoResult
        /\ err' = NoError

\* The throw of a missing argument: nothing is written.
ThrowBeforeWrite(op, message) ==
    /\ lastOp' = op
    /\ err' = message
    /\ result' = NoResult
    /\ UNCHANGED <<value, selectionStart, selectionEnd, pc, pending>>

\* insertText(textarea, text, selectInserted) as far as the write
InsertTextWrite ==
    /\ lastOp = "init"
    /\ pc = "idle"
    /\ pre' = Snapshot
    /\ \E text \in MaybeTexts, selectInserted \in BOOLEAN :
          IF text.null
          THEN ThrowBeforeWrite("insertText", "text is required")
          ELSE WriteValue("insertText",
                   InsertNewValue(value, selectionStart, selectionEnd, text.s),
                   InsertNewRange(selectionStart, selectionEnd, text.s, selectInserted))
    /\ UNCHANGED <<cursorSelection, awaiting, timeoutId, timers, calls, lastRun,
                   preview, reported>>
    /\ UNCHANGED engine

\* wrapSelection(textarea, prefix, suffix, selectWrapped) as far as the write
WrapSelectionWrite ==
    /\ lastOp = "init"
    /\ pc = "idle"
    /\ pre' = Snapshot
    /\ \E prefix \in MaybeTexts, suffix \in MaybeTexts, selectWrapped \in BOOLEAN :
          IF prefix.null \/ suffix.null
          THEN ThrowBeforeWrite("wrapSelection",
                   IF prefix.null THEN "prefix is required" ELSE "suffix is required")
          ELSE LET selection == GetSelection(value, selectionStart, selectionEnd)
               IN  WriteValue("wrapSelection",
                       WrapNewValue(value, selection, prefix.s, suffix.s),
                       WrapNewRange(selection, prefix.s, suffix.s, selectWrapped))
    /\ UNCHANGED <<cursorSelection, awaiting, timeoutId, timers, calls, lastRun,
                   preview, reported>>
    /\ UNCHANGED engine

\* this.setSelection(textarea, newStart, newEnd) and the return of the result
SetPendingSelection ==
    /\ pc = "written"
    /\ LET e == SetSelectionError(Len(value), Num(pending[1]), Num(pending[2]))
           range == SetSelectionRange(Len(value), Num(pending[1]), Num(pending[2]))
       IN  /\ err' = e
           /\ result' = IF e = NoError THEN Returned(pending) ELSE NoResult
           /\ selectionStart' = IF e = NoError THEN range[1] ELSE selectionStart
           /\ selectionEnd' = IF e = NoError THEN range[2] ELSE selectionEnd
    /\ pc' = "idle"
    /\ pending' = NoRange
    /\ UNCHANGED <<value, lastOp, pre, cursorSelection, awaiting, timeoutId,
                   timers, calls, lastRun, preview, reported>>
    /\ UNCHANGED engine

StepNext == InsertTextWrite \/ WrapSelectionWrite \/ SetPendingSelection

StepSpec == UserInit /\ [][StepNext]_vars

----------------------------------------------------------------------------
(* Toolbar plugins: execute(context), at once or resumed after an await *)

\* Plugins are run on buffers of at most MaxWrapped characters, and at most
\* MaxAwaiting executions are suspended at a time.
MaxWrapped == 6
MaxAwaiting == 2

\* The two documented plugins: wrapSelection(context, '**', '**'), and
\* url = await showLinkDialog(); if (url) wrapSelection(context, '[', `](${url})`)
\* with "u" for the url.
BoldMarker == <<"*", "*">>
LinkPrefix == <<"[">>
LinkSuffix == <<"]", "(", "u", ")">>

\* (mutant) the wrap computed from the textarea as it was at the click
PluginWrap_AtClick(context, prefix, suffix) ==
    LET selection ==
            GetSelection(context.clicked.value, context.clicked.start,
                         context.clicked.end)
    IN  /\ lastOp' = "wrapSelection"
        /\ CommitTransform(
               WrapNewValue(context.clicked.value, selection, prefix, suffix),
               WrapNewRange(selection, prefix, suffix, FALSE))

\* The wrap a plugin makes: CursorManager.wrapSelection on context.textarea,
\* the element itself, read when the call is made.
PluginWrap(context, prefix, suffix) ==
    WrapSelectionCall(Str(prefix), Str(suffix), FALSE)

\* The context handed to execute at a click (the textarea as it was then is
\* kept for reference; the context itself holds the element).
ClickContext(plugin) == [plugin |-> plugin, clicked |-> Snapshot]

PluginExplored == Len(value) <= MaxWrapped \/ Snapshot \in DocumentedStates

\* A click on the bold button: execute runs to its end.
ClickBold ==
    /\ PluginExplored
    /\ pre' = Snapshot
    /\ PluginWrap(ClickContext("bold"), BoldMarker, BoldMarker)
    /\ UNCHANGED <<cursorSelection, pc, pending, awaiting, timeoutId, timers,
                   calls, lastRun, preview, reported>>
    /\ UNCHANGED engine

\* A click on the link button: execute runs up to its await.
ClickLink ==
    /\ PluginExplored
    /\ Len(awaiting) < MaxAwaiting
    /\ awaiting' = Append(awaiting, ClickContext("link"))
    /\ UNCHANGED <<value, selectionStart, selectionEnd, lastOp, pre, result, err,
                   cursorSelection, pc, pending, timeoutId, timers, calls, lastRun,
                   preview, reported>>
    /\ UNCHANGED engine

\* s without its i-th element
RemoveAt(s, i) == SubSeq(s, 1, i - 1) \o SubSeq(s, i + 1, Len(s))

\* The dialog of the i-th suspended execution closes, with a url or without:
\* execute resumes and wraps if there is a url.
ResumeLink(i, hasUrl) ==
    /\ i \in 1 .. Len(awaiting)
    /\ awaiting' = RemoveAt(awaiting, i)
    /\ IF hasUrl
       THEN /\ PluginExplored
            /\ pre' = Snapshot
            /\ PluginWrap(awaiting[i], LinkPrefix, LinkSuffix)
       ELSE UNCHANGED <<value, selectionStart, selectionEnd, lastOp, pre, result, err>>
    /\ UNCHANGED <<cursorSelection, pc, pending, timeoutId, timers, calls, lastRun,
                   preview, reported>>
    /\ UNCHANGED engine

LinkDialogCloses == \E i \in 1 .. Len(awaiting), hasUrl \in BOOLEAN : ResumeLink(i, hasUrl)

PluginNext == ClickBold \/ ClickLink \/ LinkDialogCloses

\* The plugins of the toolbar over a textarea as the user left it
PluginSpec == UserInit /\ [][PluginNext]_vars

----------------------------------------------------------------------------
(* debounce(fn, wait) *)

\* The wait, in ticks of the clock, and the number of calls explored.
Wait == 2
MaxCalls == 3

\* The arguments of the calls, as in the documented example
DebounceArgs == {"H", "He"}

\* (mutant) the timer is left to run
ClearTimeout_Ignored(ts, id) == ts

\* clearTimeout(id): no timer of that id is pending afterwards
ClearTimeout(ts, id) == {t \in ts : t.id # id}

\* setTimeout(() => fn(...args), wait), returning id
SetTimeout(ts, id, args) == ts \cup {[id |-> id, left |-> Wait, args |-> args]}

\* The function debounce returns, called with args.  setTimeout hands out a
\* new id at each call: the number of the call.
DebouncedCall(args) ==
    LET id == Len(calls) + 1
        kept == IF timeoutId # NoTimeout THEN ClearTimeout(timers, timeoutId)
                ELSE timers
    IN  /\ timeoutId' = id
        /\ timers' = SetTimeout(kept, id, args)
        /\ calls' = Append(calls, args)
        /\ UNCHANGED lastRun

\* The callback of timer t, due: fn(...args)
TimerCallback(t) ==
    /\ t \in timers
    /\ t.left = 0
    /\ timers' = timers \ {t}
    /\ lastRun' = [call |-> t.id, args |-> t.args]
    /\ UNCHANGED <<timeoutId, calls>>

\* A call of the debounced function
Debounced ==
    /\ Len(calls) < MaxCalls
    /\ \E args \in DebounceArgs : DebouncedCall(args)
    /\ UNCHANGED <<value, selectionStart, selectionEnd, lastOp, pre, result, err,
                   cursorSelection, pc, pending, awaiting, preview, reported>>
    /\ UNCHANGED engine

\* The clock ticks while a timer has time left.
Tick ==
    /\ \E t \in timers : t.left > 0
    /\ timers' = {[t EXCEPT !.left = Max(0, t.left - 1)] : t \in timers}
    /\ UNCHANGED <<value, selectionStart, selectionEnd, lastOp, pre, result, err,
                   cursorSelection, pc, pending, awaiting, timeoutId, calls, lastRun,
                   preview, reported>>
    /\ UNCHANGED engine

\* A due timer fires: fn runs.
FnRuns ==
    /\ \E t \in timers : TimerCallback(t)
    /\ UNCHANGED <<value, selectionStart, selectionEnd, lastOp, pre, result, err,
                   cursorSelection, pc, pending, awaiting, preview, reported>>
    /\ UNCHANGED engine

DebounceInit ==
    /\ value = <<>>
    /\ selectionStart = 0
    /\ selectionEnd = 0
    /\ NoCallYet

DebounceNext == Debounced \/ Tick \/ FnRuns

\* Time passes and a due timer fires.
DebounceSpec ==
    DebounceInit /\ [][DebounceNext]_vars /\ WF_vars(Tick) /\ WF_vars(FnRuns)

----------------------------------------------------------------------------
(* MarkdownEditor *)

\* The editor is explored on contents of at most MaxContent characters.
MaxContent == 2
TypedChars == {"a"}
EditorContents == {<<>>, <<"b">>}

\* markdown-it's render and DOMPurify's sanitize, as terms over their input
MarkdownItRender(markdown) == <<"render(">> \o markdown \o <<")">>
SanitizeHtml(html) == <<"sanitize(">> \o html \o <<")">>

\* (mutant) the html written as rendered
PreviewHtml_Unsanitized(markdown) == MarkdownItRender(markdown)

\* updatePreview: what it writes to preview.innerHTML
PreviewHtml(markdown) == SanitizeHtml(MarkdownItRender(markdown))

\* new MarkdownEditor(container, options) with content.initial, callbacks.onChange
\* and the default debounce.  (A textarea whose value is set has its cursor
\* at the end; an empty initial content is not rendered.)
EditorInit ==
    /\ value \in EditorContents
    /\ selectionStart = Len(value)
    /\ selectionEnd = Len(value)
    /\ preview = IF value # <<>> THEN PreviewHtml(value) ELSE NoPreview
    /\ reported = [called |-> FALSE, content |-> value]
    /\ lastOp = "init"
    /\ pre = Snapshot
    /\ result = NoResult
    /\ err = NoError
    /\ cursorSelection = NoSelection
    /\ pc = "idle"
    /\ pending = NoRange
    /\ awaiting = <<>>
    /\ timeoutId = NoTimeout
    /\ timers = {}
    /\ calls = <<>>
    /\ lastRun = NoRun
    /\ EngineIdle

\* The user types a character: the textarea replaces the selection by it
\* and dispatches 'input', whose listener is debouncedUpdate.
UserTypes ==
    /\ Len(value) < MaxContent
    /\ Len(calls) < MaxCalls
    /\ \E c \in TypedChars :
          /\ value' = SubSeq(value, 1, selectionStart) \o <<c>>
                          \o SubSeq(value, selectionEnd + 1, Len(value))
          /\ selectionStart' = selectionStart + 1
          /\ selectionEnd' = selectionStart + 1
    /\ DebouncedCall("input")
    /\ lastOp' = "input"
    /\ pre' = Snapshot
    /\ result' = NoResult
    /\ err' = NoError
    /\ UNCHANGED <<cursorSelection, pc, pending, awaiting, preview, reported>>
    /\ UNCHANGED engine

\* editor.setContent(content): the value is written and the preview updated;
\* a throw of the renderer leaves setContent after the write.
SetContent ==
    /\ \E content \in EditorContents, thrown \in BOOLEAN :
          LET reset == SelectionAfterValueSet(value, content, selectionStart,
                                              selectionEnd)
          IN  /\ value' = content
              /\ selectionStart' = reset[1]
              /\ selectionEnd' = reset[2]
              /\ preview' = IF thrown THEN preview ELSE PreviewHtml(content)
              /\ err' = IF thrown THEN "render failed" ELSE NoError
    /\ lastOp' = "setContent"
    /\ pre' = Snapshot
    /\ result' = NoResult
    /\ UNCHANGED <<cursorSelection, pc, pending, awaiting, timeoutId, timers,
                   calls, lastRun, reported>>
    /\ UNCHANGED engine

\* A toolbar action on the editor's textarea: CursorManager.insertText
ToolbarInsert ==
    /\ pre' = Snapshot
    /\ cursorSelection' = NoSelection
    /\ \E text \in Texts :
          /\ Len(value) + Len(text) <= MaxContent
          /\ InsertTextCall("insertText", Str(text), FALSE)
    /\ UNCHANGED detached

\* (mutant) onChange is called before the preview is updated
DebouncedUpdateRuns_OnChangeFirst ==
    /\ \E t \in timers : TimerCallback(t)
    /\ \E thrown \in BOOLEAN :
          /\ preview' = IF thrown THEN preview ELSE PreviewHtml(value)
          /\ reported' = [called |-> TRUE, content |-> value]
          /\ err' = IF thrown THEN "render failed" ELSE NoError
    /\ lastOp' = "debouncedUpdate"
    /\ pre' = Snapshot
    /\ result' = NoResult
    /\ UNCHANGED <<value, selectionStart, selectionEnd, cursorSelection, pc,
                   pending, awaiting>>
    /\ UNCHANGED engine

\* The timer of debouncedUpdate fires: updatePreview(), then
\* onChange(textarea.value, editor); a throw of the renderer ends the callback.
DebouncedUpdateRuns ==
    /\ \E t \in timers : TimerCallback(t)
    /\ \E thrown \in BOOLEAN :
          /\ preview' = IF thrown THEN preview ELSE PreviewHtml(value)
          /\ reported' = IF thrown THEN reported
                         ELSE [called |-> TRUE, content |-> value]
          /\ err' = IF thrown THEN "render failed" ELSE NoError
    /\ lastOp' = "debouncedUpdate"
    /\ pre' = Snapshot
    /\ result' = NoResult
    /\ UNCHANGED <<value, selectionStart, selectionEnd, cursorSelection, pc,
                   pending, awaiting>>
    /\ UNCHANGED engine

EditorNext ==
    \/ UserTypes
    \/ SetContent
    \/ ToolbarInsert
    \/ Tick
    \/ DebouncedUpdateRuns

EditorSpec == EditorInit /\ [][EditorNext]_vars

----------------------------------------------------------------------------
(* The transform engine: modifyLines.  The operation is declared by its     *)
(* result, LineModificationResult; which lines a selection affects and how  *)
(* the buffer is put together again follow the specification of the engine. *)

\* modifyLines is explored on buffers of at most MaxLineBuffer characters.
MaxLineBuffer == 4
LF == "\n"
CR == "\r"
LineChars == {"a", "-", " ", LF, CR}
LineBuffers == SeqsUpTo(LineChars, MaxLineBuffer)

\* The buffers of the documented examples
Line123 ==
    <<"L", "i", "n", "e", " ", "1", LF, "L", "i", "n", "e", " ", "2", LF,
      "L", "i", "n", "e", " ", "3">>
Introduction == <<"I", "n", "t", "r", "o", "d", "u", "c", "t", "i", "o", "n">>

\* "Line 1\nLine 2\nLine 3" all selected; "Introduction|", the cursor at the end
DocumentedLineStates ==
    { [value |-> Line123, start |-> 0, end |-> 20],
      [value |-> Introduction, start |-> 12, end |-> 12] }

ListMarker == <<"-", " ">>
HeadingMarker == <<"#", "#", " ">>
LineTransforms == {"heading", "list"}

StartsWith(s, p) == Len(s) >= Len(p) /\ SubSeq(s, 1, Len(p)) = p

\* The heading plugin adds "## " to a line; the list plugin adds "- " to
\* it, or removes the "- " it starts with.
ApplyLineTransform(transform, line) ==
    IF transform = "heading"
    THEN HeadingMarker \o line
    ELSE IF StartsWith(line, ListMarker)
         THEN SubSeq(line, Len(ListMarker) + 1, Len(line))
         ELSE ListMarker \o line

\* The lines of a buffer from offset s on, in order: the content of a line is
\* buffer[start, end), its separator ("\n", "\r\n", or nothing at the end of
\* the buffer) is buffer[end, next).
RECURSIVE LinesFrom(_, _)
LinesFrom(buffer, s) ==
    LET feeds == {j \in s + 1 .. Len(buffer) : buffer[j] = LF}
    IN  IF feeds = {}
        THEN <<[start |-> s, end |-> Len(buffer), next |-> Len(buffer)]>>
        ELSE LET lf == CHOOSE j \in feeds : \A k \in feeds : j <= k
                 sep == IF lf - 1 > s /\ buffer[lf - 1] = CR THEN lf - 2 ELSE lf - 1
             IN  <<[start |-> s, end |-> sep, next |-> lf]>> \o LinesFrom(buffer, lf)

Lines(buffer) == LinesFrom(buffer, 0)

LineContent(buffer, line) == SubSeq(buffer, line.start + 1, line.end)
LineSeparator(buffer, line) == SubSeq(buffer, line.end + 1, line.next)

\* Line k is affected: the cursor sits in it, or it owns a character of the
\* selection, of its content or of its separator (so a selection that ends
\* right after a separator does not affect the line that follows).
IsAffected(lines, k, start, end) ==
    IF start = end
    THEN /\ lines[k].start <= start
         /\ start < lines[k].next \/ k = Len(lines)
    ELSE \E i \in start .. end - 1 : lines[k].start <= i /\ i < lines[k].next

\* The numbers of the affected lines, 1-indexed, ascending
RECURSIVE AscendingFrom(_, _)
AscendingFrom(numbers, k) ==
    IF \A n \in numbers : n < k
    THEN <<>>
    ELSE (IF k \in numbers THEN <<k>> ELSE <<>>) \o AscendingFrom(numbers, k + 1)

\* (mutant) the first of the affected lines only
AffectedLines_FirstOnly(buffer, start, end) ==
    LET lines == Lines(buffer)
        first == CHOOSE k \in 1 .. Len(lines) :
                    /\ IsAffected(lines, k, start, end)
                    /\ \A n \in 1 .. k - 1 : ~IsAffected(lines, n, start, end)
    IN  <<first>>

\* affectedLines: the numbers of all the affected lines, 1-indexed
AffectedLines(buffer, start, end) ==
    LET lines == Lines(buffer)
    IN  AscendingFrom({k \in 1 .. Len(lines) : IsAffected(lines, k, start, end)}, 1)

InSeq(x, s) == \E i \in 1 .. Len(s) : s[i] = x

\* Line k as it is after the operation, without its separator
NewLine(buffer, lines, k, affected, transform) ==
    IF InSeq(k, affected)
    THEN ApplyLineTransform(transform, LineContent(buffer, lines[k]))
    ELSE LineContent(buffer, lines[k])

\* The lines from line k on, rejoined with their own separators
RECURSIVE NewContentFrom(_, _, _, _, _)
NewContentFrom(buffer, lines, k, affected, transform) ==
    IF k > Len(lines)
    THEN <<>>
    ELSE NewLine(buffer, lines, k, affected, transform)
         \o LineSeparator(buffer, lines[k])
         \o NewContentFrom(buffer, lines, k + 1, affected, transform)

\* What line k got (or, negative, lost) by the transform
Grown(buffer, lines, k, transform) ==
    Len(ApplyLineTransform(transform, LineContent(buffer, lines[k])))
    - Len(LineContent(buffer, lines[k]))

\* What the lines up to line k got together
RECURSIVE GrownUpTo(_, _, _, _, _)
GrownUpTo(buffer, lines, k, affected, transform) ==
    IF k = 0
    THEN 0
    ELSE (IF InSeq(k, affected) THEN Grown(buffer, lines, k, transform) ELSE 0)
         + GrownUpTo(buffer, lines, k - 1, affected, transform)

\* From the start of the first affected line to the end of the last one, as
\* they are after the operation
AffectedSpan(buffer, affected, transform) ==
    LET lines == Lines(buffer)
        first == affected[1]
        last == affected[Len(affected)]
    IN  <<lines[first].start + GrownUpTo(buffer, lines, first - 1, affected, transform),
          lines[last].end + GrownUpTo(buffer, lines, last, affected, transform)>>

\* (mutant) the affected lines selected, whatever the selection was
NewCursor_SpanAlways(buffer, start, end, affected, transform) ==
    AffectedSpan(buffer, affected, transform)

\* newCursorStart and newCursorEnd.  A selection: the affected lines.  A
\* cursor: it keeps its place in the content of its line, moved by what the
\* line got or lost at its start, and both are equal.
NewCursor(buffer, start, end, affected, transform) ==
    IF start = end
    THEN LET lines == Lines(buffer)
             line == affected[1]
             caret == Max(lines[line].start,
                          start + Grown(buffer, lines, line, transform))
         IN  <<caret, caret>>
    ELSE AffectedSpan(buffer, affected, transform)

\* modifyLines(buffer, selection, lineTransform)
ModifyLines(buffer, start, end, transform) ==
    LET affected == AffectedLines(buffer, start, end)
        cursor == NewCursor(buffer, start, end, affected, transform)
    IN  [newContent |-> NewContentFrom(buffer, Lines(buffer), 1, affected, transform),
         affectedLines |-> affected,
         newCursorStart |-> cursor[1],
         newCursorEnd |-> cursor[2]]

\* A plugin that modifies lines calls modifyLines with the buffer and the
\* selection of the textarea.
ModifyLinesCall ==
    /\ lastOp = "init"
    /\ \E transform \in LineTransforms :
          /\ lineTransform' = transform
          /\ lineResult' = ModifyLines(value, selectionStart, selectionEnd, transform)
    /\ lastOp' = "modifyLines"
    /\ pre' = Snapshot
    /\ UNCHANGED <<value, selectionStart, selectionEnd, result, err, cursorSelection,
                   pc, pending, awaiting, timeoutId, timers, calls, lastRun, preview,
                   reported, wikiLink, wikiText, matches>>

LinesInit ==
    /\ \/ /\ value \in LineBuffers
          /\ selectionStart \in 0 .. Len(value)
          /\ selectionEnd \in selectionStart .. Len(value)
       \/ \E d \in DocumentedLineStates :
             /\ value = d.value
             /\ selectionStart = d.start
             /\ selectionEnd = d.end
    /\ NoCallYet

LinesNext == ModifyLinesCall

LinesSpec == LinesInit /\ [][LinesNext]_vars

----------------------------------------------------------------------------
(* The wiki-link codec: parse and render.  WikiLinkData declares what a     *)
(* link is parsed into; where a span ends, which segment a '#' is looked    *)
(* for in and what render writes follow the specification of the codec.     *)

\* Links are explored with at most MaxLinkContent characters between the
\* brackets, and rendered from fields of at most MaxField characters.
MaxLinkContent == 4
MaxField == 2
WikiChars == {"a", "|", "#"}
Open == <<"[", "[">>
Close == <<"]", "]">>

\* "Check [[Aragorn|Hero#appearance]] today", and the links whose parts
\* the documentation of WikiLinkData gives
Aragorn == <<"A", "r", "a", "g", "o", "r", "n">>
Hero == <<"H", "e", "r", "o">>
Appearance == <<"a", "p", "p", "e", "a", "r", "a", "n", "c", "e">>
AragornLink == Open \o Aragorn \o <<"|">> \o Hero \o <<"#">> \o Appearance \o Close
CheckToday ==
    <<"C", "h", "e", "c", "k", " ">> \o AragornLink \o <<" ", "t", "o", "d", "a", "y">>
Page == <<"P", "a", "g", "e">>
PageSections ==
    Open \o Page \o <<"#", "s", "e", "c", "t", "i", "o", "n", "#", "s", "u", "b">> \o Close
\* [[Target#notsection|Display#section]], shortened
TargetNot == <<"T", "#", "n">>
DisplaySection == Open \o TargetNot \o <<"|", "D", "#", "s">> \o Close

\* The texts parse is explored on: a link, with or without text before it,
\* alone, before other text, before another link or before an opening that
\* is never closed.
WikiTexts ==
    { before \o Open \o content \o Close \o after :
        before \in {<<>>, <<"a">>},
        content \in SeqsUpTo(WikiChars, MaxLinkContent),
        after \in {<<>>, <<"a">>, Open \o <<"a", "|">> \o Close, Open \o <<"a">>} }
    \cup {CheckToday, PageSections, DisplaySection, <<"a">>, Open \o <<"a">>}

\* The fields a link is rendered from
Fields == SeqsUpTo(WikiChars, MaxField) \cup {<<"]">>, <<"[">>}
WikiLinks ==
    [target : Fields, display : Fields, section : {Null} \cup {Str(s) : s \in Fields}]

\* The first place of character c in s, 0 if it has none
IndexOf(s, c) ==
    IF \E i \in 1 .. Len(s) : s[i] = c
    THEN CHOOSE i \in 1 .. Len(s) : s[i] = c /\ \A k \in 1 .. i - 1 : s[k] # c
    ELSE 0

\* The last place of character c in s, 0 if it has none
LastIndexOf(s, c) ==
    IF \E i \in 1 .. Len(s) : s[i] = c
    THEN CHOOSE i \in 1 .. Len(s) : s[i] = c /\ \A k \in i + 1 .. Len(s) : s[k] # c
    ELSE 0

\* (mutant) the section taken after the last '#'
SplitSection_AtLast(segment) ==
    LET hash == LastIndexOf(segment, "#")
    IN  IF hash = 0
        THEN [before |-> segment, section |-> Null]
        ELSE [before |-> SubSeq(segment, 1, hash - 1),
              section |-> Str(SubSeq(segment, hash + 1, Len(segment)))]

\* section: everything after the hash, further hashes with it; null if the
\* segment has no hash
SplitSection(segment) ==
    LET hash == IndexOf(segment, "#")
    IN  IF hash = 0
        THEN [before |-> segment, section |-> Null]
        ELSE [before |-> SubSeq(segment, 1, hash - 1),
              section |-> Str(SubSeq(segment, hash + 1, Len(segment)))]

\* (mutant) no display without a pipe
DisplayOf_NoDefault(target, hasPipe, shown) ==
    IF hasPipe /\ shown # <<>> THEN shown ELSE IF hasPipe THEN target ELSE <<>>

\* (mutant) an empty display kept
DisplayOf_KeepEmpty(target, hasPipe, shown) ==
    IF hasPipe THEN shown ELSE target

\* display: the text after the pipe; the target if there is no pipe or
\* nothing after it
DisplayOf(target, hasPipe, shown) ==
    IF hasPipe /\ shown # <<>> THEN shown ELSE target

\* What is between the brackets, parsed: split at the first '|'; without
\* one the '#' is looked for in the target, with one in what follows the '|'.
ParseContent(content) ==
    LET pipe == IndexOf(content, "|")
    IN  IF pipe = 0
        THEN LET split == SplitSection(content)
             IN  [target |-> split.before,
                  display |-> DisplayOf(split.before, FALSE, <<>>),
                  section |-> split.section]
        ELSE LET target == SubSeq(content, 1, pipe - 1)
                 split == SplitSection(SubSeq(content, pipe + 1, Len(content)))
             IN  [target |-> target,
                  display |-> DisplayOf(target, TRUE, split.before),
                  section |-> split.section]

\* The places in text, after offset from, where both characters of pair are
PairsFrom(text, from, pair) ==
    {i \in from + 1 .. Len(text) - 1 : text[i] = pair[1] /\ text[i + 1] = pair[2]}

Least(numbers) == CHOOSE n \in numbers : \A m \in numbers : n <= m

\* The matches from offset from on: the first "[[" and the first "]]" after
\* it make a span, and the search goes on after it.
RECURSIVE MatchesFrom(_, _)
MatchesFrom(text, from) ==
    IF PairsFrom(text, from, Open) = {}
    THEN <<>>
    ELSE LET open == Least(PairsFrom(text, from, Open))
         IN  IF PairsFrom(text, open + 1, Close) = {}
             THEN <<>>
             ELSE LET close == Least(PairsFrom(text, open + 1, Close))
                      data == ParseContent(SubSeq(text, open + 2, close - 1))
                  IN  <<[data |-> [target |-> data.target,
                                   display |-> data.display,
                                   section |-> data.section,
                                   raw |-> SubSeq(text, open, close + 1)],
                         matchStart |-> open - 1,
                         matchEnd |-> close + 1]>>
                      \o MatchesFrom(text, close + 1)

\* parse(text)
WikiParse(text) == MatchesFrom(text, 0)

\* render(data): the display left out if empty or the target, the section
\* if null or empty
WikiRender(data) ==
    Open \o data.target
    \o (IF data.display # <<>> /\ data.display # data.target
        THEN <<"|">> \o data.display ELSE <<>>)
    \o (IF ~data.section.null /\ data.section.s # <<>>
        THEN <<"#">> \o data.section.s ELSE <<>>)
    \o Close

\* render called with a link
Render ==
    /\ lastOp = "init"
    /\ \E data \in WikiLinks :
          /\ wikiLink' = data
          /\ wikiText' = WikiRender(data)
    /\ lastOp' = "render"
    /\ UNCHANGED <<value, selectionStart, selectionEnd, pre, result, err,
                   cursorSelection, pc, pending, awaiting, timeoutId, timers, calls,
                   lastRun, preview, reported, lineTransform, lineResult, matches>>

\* parse called with a text
Parse ==
    /\ lastOp = "init"
    /\ \E text \in WikiTexts :
          /\ wikiText' = text
          /\ matches' = WikiParse(text)
    /\ lastOp' = "parse"
    /\ UNCHANGED <<value, selectionStart, selectionEnd, pre, result, err,
                   cursorSelection, pc, pending, awaiting, timeoutId, timers, calls,
                   lastRun, preview, reported, lineTransform, lineResult, wikiLink>>

\* parse called with what render returned
ParseRendered ==
    /\ lastOp = "render"
    /\ matches' = WikiParse(wikiText)
    /\ lastOp' = "parseRendered"
    /\ UNCHANGED <<value, selectionStart, selectionEnd, pre, result, err,
                   cursorSelection, pc, pending, awaiting, timeoutId, timers, calls,
                   lastRun, preview, reported, lineTransform, lineResult, wikiLink,
                   wikiText>>

WikiInit ==
    /\ value = <<>>
    /\ selectionStart = 0
    /\ selectionEnd = 0
    /\ NoCallYet

WikiNext == Render \/ Parse \/ ParseRendered

WikiSpec == WikiInit /\ [][WikiNext]_vars

----------------------------------------------------------------------------
(* Properties.  A property of one call is an action property: for every      *)
(* argument list, a step that is that call relates the textarea before the   *)
(* call (unprimed) to the textarea after it (primed).                        *)

Stars == <<"*", "*">>
HelloBoldWorld == HelloSpace \o Stars \o SubSeq(HelloWorld, 7, 11) \o Stars

\* The characters of s from offset a up to, not including, offset b.
Slice(s, a, b) == SubSeq(s, a + 1, b)
\* s without the n characters that start at offset a.
Remove(s, a, n) == Slice(s, 0, a) \o Slice(s, a + n, Len(s))

\* C1: after any sequence of setSelection, insertText, replaceSelection and
\* wrapSelection calls, failed ones included, the selection satisfies
\* 0 <= start <= end <= length(buffer).
C1_SelectionInBuffer ==
    /\ 0 <= selectionStart
    /\ selectionStart <= selectionEnd
    /\ selectionEnd <= Len(value)

\* After a wrap that selected the wrapped text, a setSelection call has
\* thrown.
C1_Witness ==
    /\ lastOp = "setSelection"
    /\ err # NoError
    /\ 0 < selectionStart
    /\ selectionStart < selectionEnd
    /\ selectionEnd < Len(value)

\* C2: wrapSelection produces buffer[0:start] + prefix + buffer[start:end] +
\* suffix + buffer[end:].
C2_WrapContent ==
    [][lastOp' = "wrapSelection" =>
       \A prefix \in Texts, suffix \in Texts, selectWrapped \in BOOLEAN :
          WrapSelectionCall(Str(prefix), Str(suffix), selectWrapped)
          => value' = Slice(value, 0, selectionStart) \o prefix
                        \o Slice(value, selectionStart, selectionEnd) \o suffix
                        \o Slice(value, selectionEnd, Len(value))]_vars

\* The "b" of "aba" wrapped in "*" and "**".
C2_Witness ==
    /\ lastOp = "wrapSelection"
    /\ err = NoError
    /\ pre = [value |-> <<"a", "b", "a">>, start |-> 1, end |-> 2]
    /\ value = <<"a", "*", "b", "*", "*", "a">>

\* C3: wrapSelection at a caret leaves a caret at start + length(prefix),
\* whatever selectWrapped is; the empty buffer wrapped in "**" and "**"
\* becomes "****" with the caret at 2.
C3_WrapAtCaret ==
    [][lastOp' = "wrapSelection" =>
       \A prefix \in Texts, suffix \in Texts, selectWrapped \in BOOLEAN :
          WrapSelectionCall(Str(prefix), Str(suffix), selectWrapped)
              /\ selectionStart = selectionEnd
          => /\ selectionStart' = selectionStart + Len(prefix)
             /\ selectionEnd' = selectionStart + Len(prefix)
             /\ (value = <<>> /\ prefix = Stars /\ suffix = Stars
                 => value' = Stars \o Stars /\ selectionStart' = 2)]_vars

\* The empty buffer wrapped: "****" with the caret between the two pairs.
C3_Witness ==
    /\ lastOp = "wrapSelection"
    /\ err = NoError
    /\ pre = [value |-> <<>>, start |-> 0, end |-> 0]
    /\ value = Stars \o Stars
    /\ selectionStart = 2
    /\ selectionEnd = 2

\* C4: wrapSelection of a non-empty selection with selectWrapped selects
\* [start + length(prefix), start + length(prefix) + length(selected text)],
\* which holds the text selected before; "World" of "Hello World" wrapped in
\* "**" is selected as {8, 13}.
C4_WrapSelectWrapped ==
    [][lastOp' = "wrapSelection" =>
       \A prefix \in Texts, suffix \in Texts :
          WrapSelectionCall(Str(prefix), Str(suffix), TRUE)
              /\ selectionStart # selectionEnd
          => /\ selectionStart' = selectionStart + Len(prefix)
             /\ selectionEnd' =
                    selectionStart + Len(prefix) + (selectionEnd - selectionStart)
             /\ Slice(value', selectionStart', selectionEnd')
                    = Slice(value, selectionStart, selectionEnd)
             /\ (value = HelloWorld /\ selectionStart = 6 /\ selectionEnd = 11
                     /\ prefix = Stars /\ suffix = Stars
                 => selectionStart' = 8 /\ selectionEnd' = 13)]_vars

\* "World" of "Hello World" wrapped: "Hello **World**" with "World" selected.
C4_Witness ==
    /\ lastOp = "wrapSelection"
    /\ err = NoError
    /\ pre = [value |-> HelloWorld, start |-> 6, end |-> 11]
    /\ value = HelloBoldWorld
    /\ selectionStart = 8
    /\ selectionEnd = 13

\* C5: wrapSelection of a non-empty selection without selectWrapped leaves a
\* caret at start + length(prefix + selected text + suffix).
C5_WrapCaretAfter ==
    [][lastOp' = "wrapSelection" =>
       \A prefix \in Texts, suffix \in Texts :
          WrapSelectionCall(Str(prefix), Str(suffix), FALSE)
              /\ selectionStart # selectionEnd
          => /\ selectionStart' = selectionStart + Len(prefix)
                    + (selectionEnd - selectionStart) + Len(suffix)
             /\ selectionEnd' = selectionStart'
             /\ result'.newStart = selectionStart'
             /\ result'.newEnd = selectionStart']_vars

\* "ab" of "abb" wrapped in "*" and "**": the caret is behind the suffix.
C5_Witness ==
    /\ lastOp = "wrapSelection"
    /\ err = NoError
    /\ pre = [value |-> <<"a", "b", "b">>, start |-> 0, end |-> 2]
    /\ value = <<"*", "a", "b", "*", "*", "b">>
    /\ selectionStart = 5
    /\ selectionEnd = 5

\* C6 as amended: "World" of "Hello World" ({6, 11}) wrapped in "**" and "**"
\* without selectWrapped gives "Hello **World**" and a caret at 15, the end
\* of the wrapped span.
C6_HelloWorld ==
    [][WrapSelectionCall(Str(Stars), Str(Stars), FALSE)
          /\ value = HelloWorld /\ selectionStart = 6 /\ selectionEnd = 11
       => /\ value' = HelloBoldWorld
          /\ selectionStart' = 15
          /\ selectionEnd' = 15]_vars

\* C6 as claimed: the caret is at start = end = 16.
C6_Original ==
    [][WrapSelectionCall(Str(Stars), Str(Stars), FALSE)
          /\ value = HelloWorld /\ selectionStart = 6 /\ selectionEnd = 11
       => /\ value' = HelloBoldWorld
          /\ selectionStart' = 16
          /\ selectionEnd' = 16]_vars

\* "World" of "Hello World" wrapped: "Hello **World**" with the caret at
\* its end.
C6_Witness ==
    /\ lastOp = "wrapSelection"
    /\ err = NoError
    /\ pre = [value |-> HelloWorld, start |-> 6, end |-> 11]
    /\ value = HelloBoldWorld
    /\ selectionStart = selectionEnd
    /\ selectionEnd = Len(HelloBoldWorld)

\* C7: after wrapSelection, removing length(suffix) characters in front of
\* the end of the wrapped span and length(prefix) characters at its start
\* gives the buffer back.
C7_WrapRoundTrip ==
    [][lastOp' = "wrapSelection" =>
       \A prefix \in Texts, suffix \in Texts, selectWrapped \in BOOLEAN :
          WrapSelectionCall(Str(prefix), Str(suffix), selectWrapped)
          => LET wrapStart == selectionStart
                 wrapEnd == selectionStart + Len(prefix)
                                + (selectionEnd - selectionStart) + Len(suffix)
             IN  Remove(Remove(value', wrapEnd - Len(suffix), Len(suffix)),
                        wrapStart, Len(prefix)) = value]_vars

\* The "b" of "bab" wrapped in "**" and "*".
C7_Witness ==
    /\ lastOp = "wrapSelection"
    /\ err = NoError
    /\ pre = [value |-> <<"b", "a", "b">>, start |-> 0, end |-> 1]
    /\ value = <<"*", "*", "b", "*", "a", "b">>

\* C8: insertText (and replaceSelection) produce buffer[0:start] + text +
\* buffer[end:].
C8_InsertContent ==
    [][\A text \in Texts, selectInserted \in BOOLEAN :
          InsertTextCall("insertText", Str(text), selectInserted)
              \/ InsertTextCall("replaceSelection", Str(text), FALSE)
          => value' = Slice(value, 0, selectionStart) \o text
                        \o Slice(value, selectionEnd, Len(value))]_vars

\* "World" of "Hello World" replaced by "**".
C8_Witness ==
    /\ lastOp = "insertText"
    /\ err = NoError
    /\ pre = [value |-> HelloWorld, start |-> 6, end |-> 11]
    /\ value = HelloSpace \o Stars

\* The cursor offsets that point into an inserted text: 0 .. length from its
\* start, -length .. -1 back from its end.
CursorOffsets(text) == -Len(text) .. Len(text)

\* The caret the documented policy asks for: start + offset, clamped to the
\* inserted text, for an offset >= 0; start + length + offset for one < 0.
CaretFor(start, length, cursorOffset) ==
    IF cursorOffset >= 0
    THEN start + Min(cursorOffset, length)
    ELSE start + length + cursorOffset

\* C9: the insert operation places the caret according to cursorOffset:
\* whatever offset into the inserted text the caller asks for, the caret is
\* where the policy puts it.
C9_CaretByOffset ==
    [][\A text \in Texts : \A cursorOffset \in CursorOffsets(text) :
          InsertTextCall("insertText", Str(text), FALSE)
          => /\ selectionStart' = CaretFor(selectionStart, Len(text), cursorOffset)
             /\ selectionEnd' = selectionStart']_vars

\* C10 as amended: inserting the empty string removes the selected text and
\* nothing else (the content is unchanged when the selection is a caret) and
\* leaves a caret at the start of the selection.
C10_InsertEmpty ==
    [][InsertTextCall("insertText", Str(<<>>), FALSE)
       => /\ value' = Slice(value, 0, selectionStart)
                        \o Slice(value, selectionEnd, Len(value))
          /\ (selectionStart = selectionEnd => value' = value)
          /\ selectionStart' = selectionStart
          /\ selectionEnd' = selectionStart]_vars

\* C10 as claimed: the content is unchanged for every selection.
C10_Original ==
    [][InsertTextCall("insertText", Str(<<>>), FALSE)
       => /\ value' = value
          /\ selectionStart' = selectionStart
          /\ selectionEnd' = selectionStart]_vars

\* The empty string inserted over "World" of "Hello World".
C10_Witness ==
    /\ lastOp = "insertText"
    /\ err = NoError
    /\ pre = [value |-> HelloWorld, start |-> 6, end |-> 11]
    /\ value = HelloSpace
    /\ selectionStart = 6
    /\ selectionEnd = 6

\* C11: insertText leaves a caret unless selectInserted is set; with
\* selectInserted the selection is [start, start + length(text)] and holds
\* the inserted text; replaceSelection always leaves a caret.
C11_InsertSelection ==
    [][\A text \in Texts :
          /\ InsertTextCall("insertText", Str(text), FALSE)
             => selectionStart' = selectionEnd'
          /\ InsertTextCall("insertText", Str(text), TRUE)
             => /\ selectionStart' = selectionStart
                /\ selectionEnd' = selectionStart + Len(text)
                /\ Slice(value', selectionStart', selectionEnd') = text
          /\ InsertTextCall("replaceSelection", Str(text), FALSE)
             => selectionStart' = selectionEnd']_vars

\* "**" inserted over the "b" of "ab" with selectInserted: it is selected.
C11_Witness ==
    /\ lastOp = "insertText"
    /\ err = NoError
    /\ pre = [value |-> <<"a", "b">>, start |-> 1, end |-> 2]
    /\ value = <<"a", "*", "*">>
    /\ selectionStart = 1
    /\ selectionEnd = 3

\* C12: insertText and replaceSelection throw exactly when the text is
\* missing, wrapSelection exactly when the prefix or the suffix is; the empty
\* text is inserted without an error and leaves the caret at the start of
\* the selection; an empty prefix and suffix put the selected text back.
C12_ArgumentValidation ==
    [][/\ \A text \in MaybeTexts, selectInserted \in BOOLEAN :
             InsertTextCall("insertText", text, selectInserted)
                 \/ InsertTextCall("replaceSelection", text, FALSE)
             => /\ err' # NoError <=> text.null
                /\ text.null => err' = "text is required"
       /\ \A prefix \in MaybeTexts, suffix \in MaybeTexts, selectWrapped \in BOOLEAN :
             WrapSelectionCall(prefix, suffix, selectWrapped)
             => (err' # NoError <=> prefix.null \/ suffix.null)
       /\ \A selectInserted \in BOOLEAN :
             InsertTextCall("insertText", Str(<<>>), selectInserted)
             => /\ err' = NoError
                /\ result'.returned
                /\ selectionStart' = selectionStart
                /\ selectionEnd' = selectionStart
       /\ \A selectWrapped \in BOOLEAN :
             WrapSelectionCall(Str(<<>>), Str(<<>>), selectWrapped)
             => /\ err' = NoError
                /\ result'.returned
                /\ value' = value]_vars

\* insertText has thrown for a missing text on "Hello World".
C12_Witness ==
    /\ lastOp = "insertText"
    /\ err = "text is required"
    /\ value = HelloWorld
    /\ pre = Snapshot

\* C13: a call that ended in an error has left the buffer and the selection
\* as they were when it started; a call that returned a result has set the
\* selection that the result reports.
C13_FailFast ==
    /\ err # NoError => Snapshot = pre /\ result = NoResult
    /\ result.returned
       => /\ err = NoError
          /\ selectionStart = result.newStart
          /\ selectionEnd = result.newEnd

\* wrapSelection has thrown on a buffer with a selection that an earlier
\* call made.
C13_Witness ==
    /\ lastOp = "wrapSelection"
    /\ err # NoError
    /\ Len(value) > 0
    /\ selectionStart < selectionEnd

\* An integer within [0, len]
IsOffset(x, len) ==
    x.k = "num" /\ x.twice % 2 = 0 /\ 0 <= x.twice /\ x.twice <= 2 * len

\* C14: setSelection takes a missing end as the start; it throws, leaving the
\* selection alone, when start or end is not an integer in [0, length] or
\* end < start, and sets the selection to (start, end) otherwise.
C14_SetSelection ==
    [][\A start \in Numbers, end \in Numbers \cup {Undefined} :
          SetSelectionCall(start, end)
          => LET e == IF end = Undefined THEN start ELSE end
             IN  IF IsOffset(start, Len(value)) /\ IsOffset(e, Len(value))
                        /\ start.twice <= e.twice
                 THEN /\ err' = NoError
                      /\ selectionStart' = start.twice \div 2
                      /\ selectionEnd' = e.twice \div 2
                 ELSE /\ err' # NoError
                      /\ UNCHANGED <<value, selectionStart, selectionEnd>>]_vars

\* C18: the modified field of the result of insertText, replaceSelection and
\* wrapSelection is true exactly when the call changed the content.
C18_ModifiedIffChanged ==
    [][/\ \A text \in Texts, selectInserted \in BOOLEAN :
             InsertTextCall("insertText", Str(text), selectInserted)
                 \/ InsertTextCall("replaceSelection", Str(text), FALSE)
             => result'.modified = (value' # value)
       /\ \A prefix \in Texts, suffix \in Texts, selectWrapped \in BOOLEAN :
             WrapSelectionCall(Str(prefix), Str(suffix), selectWrapped)
             => result'.modified = (value' # value)]_vars

\* C15: getSelection changes neither the buffer nor the selection and
\* returns start and end of the selection, text = buffer[start:end] and
\* hasSelection = (start # end); text is empty exactly without a selection.
C15_GetSelection ==
    lastOp = "getSelection"
    => /\ Snapshot = pre
       /\ err = NoError
       /\ cursorSelection.start = selectionStart
       /\ cursorSelection.end = selectionEnd
       /\ cursorSelection.text = Slice(value, selectionStart, selectionEnd)
       /\ cursorSelection.hasSelection = (selectionStart # selectionEnd)
       /\ cursorSelection.text = <<>> <=> ~cursorSelection.hasSelection

\* getSelection has returned a selection within the buffer that an earlier
\* call made.
C15_Witness ==
    /\ lastOp = "getSelection"
    /\ 0 < selectionStart
    /\ selectionStart < selectionEnd
    /\ selectionEnd < Len(value)
    /\ cursorSelection.hasSelection

\* C16: in every state of an insertText or wrapSelection taken step by
\* step, the one between the write of the buffer and the setting of the new
\* selection included, start <= end and no offset exceeds the buffer length.
C16_AtomicCommit ==
    /\ pc \in {"idle", "written"}
    /\ selectionStart <= selectionEnd
    /\ selectionEnd <= Len(value)
    /\ pc = "written"
       => \/ selectionStart = Len(value)
          \/ value = pre.value /\ selectionStart = pre.start /\ selectionEnd = pre.end

\* "ab" of "aba" has been replaced by nothing and the new selection is not
\* set yet: the buffer is shorter than the end of the old selection.
C16_Witness ==
    /\ pc = "written"
    /\ lastOp = "insertText"
    /\ pre = [value |-> <<"a", "b", "a">>, start |-> 0, end |-> 2]
    /\ value = <<"a">>
    /\ selectionStart = 1
    /\ selectionEnd = 1

\* The buffer after a wrap of the present selection of the present buffer.
WrapOfPresent(prefix, suffix) ==
    Slice(value, 0, selectionStart) \o prefix
        \o Slice(value, selectionStart, selectionEnd) \o suffix
        \o Slice(value, selectionEnd, Len(value))

\* C17: the transform of a plugin, run at the click or resumed after an
\* await, computes its result from the buffer and the selection as the
\* transform before it committed them, not from those of its click.
C17_Serialized ==
    [][/\ ClickBold => value' = WrapOfPresent(BoldMarker, BoldMarker)
       /\ \A i \in 1 .. Len(awaiting) :
             ResumeLink(i, TRUE)
             => /\ value' = WrapOfPresent(LinkPrefix, LinkSuffix)
                /\ pre' = Snapshot
                /\ selectionStart' = IF selectionStart = selectionEnd
                                     THEN selectionStart + Len(LinkPrefix)
                                     ELSE selectionEnd + Len(LinkPrefix) + Len(LinkSuffix)
                /\ selectionEnd' = selectionStart']_vars

\* Two link executions were suspended on the empty buffer; both have
\* resumed, the second wrapping inside the link the first had made.
C17_Witness ==
    /\ awaiting = <<>>
    /\ lastOp = "wrapSelection"
    /\ pre.value = LinkPrefix \o LinkSuffix
    /\ pre.start = 1
    /\ value = LinkPrefix \o LinkPrefix \o LinkSuffix \o LinkSuffix

\* C19: every call of the debounced function sets the one pending timer
\* anew, with the full wait and the arguments of that call; fn runs only
\* from the timer of the last call, when its wait has passed, so once for a
\* burst of calls and with the arguments of the last; and it does run unless
\* a new call comes.
C19_Debounce ==
    /\ [](Cardinality(timers) <= 1)
    /\ [][/\ \A args \in DebounceArgs :
                DebouncedCall(args)
                => timers' = {[id |-> Len(calls) + 1, left |-> Wait, args |-> args]}
          /\ \A t \in timers :
                TimerCallback(t)
                => /\ t.left = 0
                   /\ t.id = Len(calls)
                   /\ t.args = calls[Len(calls)]
                   /\ lastRun.call < t.id
                   /\ timers' = {}]_vars
    /\ \A n \in 1 .. MaxCalls :
          (Len(calls) = n /\ timers # {})
              ~> (Len(calls) > n \/ lastRun.call = n)

\* A burst of three calls, the last with other arguments than the first,
\* has made fn run once, with the arguments of the last call.
C19_Witness ==
    /\ Len(calls) = 3
    /\ calls[1] # calls[3]
    /\ timers = {}
    /\ lastRun = [call |-> 3, args |-> calls[3]]

\* C20: once no debounce period is running, onChange has been called with
\* the content as it is, whatever changed it: typing, setContent, or a
\* CursorManager operation.
C20_ChangeReported ==
    timers = {} => reported.content = value

\* C21: no error of the renderer leaves setContent or the debounced update
\* (it is caught there), and the buffer keeps the text whose render failed.
C21_RenderFailureCaught ==
    lastOp \in {"setContent", "debouncedUpdate"} => err = NoError

\* C22: after setContent the preview is the sanitized render of the new
\* content; after typing or a CursorManager transform it is the sanitized
\* render of the buffer once no debounce period is running (renders that
\* throw set aside).
C22_PreviewFollowsBuffer ==
    /\ lastOp = "setContent" /\ err = NoError => preview = PreviewHtml(value)
    /\ lastOp = "debouncedUpdate" /\ err = NoError /\ timers = {}
       => preview = PreviewHtml(value)
    /\ lastOp = "insertText" /\ value # pre.value /\ timers = {}
       => preview = PreviewHtml(value)

\* The characters and the buffers of the editor explored
EditorChars ==
    TypedChars \cup TextChars
        \cup UNION {{c[i] : i \in 1 .. Len(c)} : c \in EditorContents}
EditorBuffers == SeqsUpTo(EditorChars, MaxContent)

\* C28: the preview is empty or sanitizeHtml of the renderer's output for
\* some buffer.
C28_PreviewSanitized ==
    \/ preview = NoPreview
    \/ \E v \in EditorBuffers : preview = SanitizeHtml(MarkdownItRender(v))

\* The preview shows the sanitized render of "a", which the buffer no
\* longer is.
C28_Witness ==
    /\ preview = SanitizeHtml(MarkdownItRender(<<"a">>))
    /\ value # <<"a">>
    /\ lastOp = "setContent"
    /\ err # NoError

\* C29: the debounced update renders the buffer as it is when the timer
\* fires and hands that content to onChange; when the render throws, onChange
\* is not called.
C29_UpdateAtFiring ==
    [][DebouncedUpdateRuns
       => /\ err' = NoError
             => /\ preview' = SanitizeHtml(MarkdownItRender(value))
                /\ reported' = [called |-> TRUE, content |-> value]
          /\ err' # NoError => UNCHANGED <<preview, reported>>
          /\ UNCHANGED <<value, selectionStart, selectionEnd>>]_vars

\* "a" was typed, setContent("b") came while the timer was pending, and the
\* update has rendered and reported "b".
C29_Witness ==
    /\ lastOp = "debouncedUpdate"
    /\ err = NoError
    /\ Len(calls) = 1
    /\ lastRun.call = 1
    /\ value = <<"b">>
    /\ preview = SanitizeHtml(MarkdownItRender(<<"b">>))
    /\ reported = [called |-> TRUE, content |-> <<"b">>]

\* The errors of the argument checks of the transforms
ArgumentErrors == {"text is required", "prefix is required", "suffix is required"}

\* C30: a result returned by insertText, replaceSelection or wrapSelection
\* reports the selection the textarea has, which lies within the new buffer;
\* these calls fail on their argument checks only, never in the setSelection
\* that ends them.
C30_ResultIsSelection ==
    /\ result.returned
       => /\ lastOp \in {"insertText", "replaceSelection", "wrapSelection"}
          /\ result.newStart = selectionStart
          /\ result.newEnd = selectionEnd
          /\ 0 <= result.newStart
          /\ result.newStart <= result.newEnd
          /\ result.newEnd <= Len(value)
    /\ lastOp \in {"insertText", "replaceSelection", "wrapSelection"}
       => result.returned \/ err \in ArgumentErrors

\* wrapSelection has returned a selection inside the new buffer.
C30_Witness ==
    /\ lastOp = "wrapSelection"
    /\ result.returned
    /\ 0 < result.newStart
    /\ result.newStart < result.newEnd
    /\ result.newEnd < Len(value)
    /\ Len(value) > Len(pre.value)

\* The buffer of the documented example after the list plugin
ListedLine123 ==
    <<"-", " ", "L", "i", "n", "e", " ", "1", LF, "-", " ", "L", "i", "n", "e",
      " ", "2", LF, "-", " ", "L", "i", "n", "e", " ", "3">>
HeadedIntroduction == HeadingMarker \o Introduction

\* The closed range [start, end] of the selection meets line k, a selection
\* that ends where line k starts not counting.
Intersected(lines, k, start, end) ==
    /\ lines[k].start <= end
    /\ start <= (IF k = Len(lines) THEN lines[k].next ELSE lines[k].next - 1)
    /\ start < end => end # lines[k].start

\* C23: modifyLines applies the transform to exactly the lines the selection
\* intersects, each on its own; the lines keep their order, the other lines
\* and every separator are as they were, and affectedLines holds the numbers
\* of the intersected lines, 1-indexed and ascending.  "Line 1\nLine 2\nLine 3"
\* all selected becomes "- Line 1\n- Line 2\n- Line 3", lines [1, 2, 3].
C23_ModifyLines ==
    lastOp = "modifyLines" =>
        LET old == Lines(value)
            new == Lines(lineResult.newContent)
            affected == lineResult.affectedLines
        IN  /\ \A k \in 1 .. Len(old) :
                   InSeq(k, affected) <=> Intersected(old, k, selectionStart, selectionEnd)
            /\ \A i \in 1 .. Len(affected) :
                   /\ affected[i] \in 1 .. Len(old)
                   /\ i > 1 => affected[i - 1] < affected[i]
            /\ Len(new) = Len(old)
            /\ \A k \in 1 .. Len(old) :
                   /\ LineContent(lineResult.newContent, new[k])
                      = IF Intersected(old, k, selectionStart, selectionEnd)
                        THEN ApplyLineTransform(lineTransform, LineContent(value, old[k]))
                        ELSE LineContent(value, old[k])
                   /\ LineSeparator(lineResult.newContent, new[k])
                      = LineSeparator(value, old[k])
            /\ (value = Line123 /\ selectionStart = 0 /\ selectionEnd = 20
                /\ lineTransform = "list")
               => /\ lineResult.newContent = ListedLine123
                  /\ affected = <<1, 2, 3>>

\* A selection from inside the first of three lines to right after the
\* separator of the second, which is "\r\n": lines 1 and 2 are transformed,
\* the third is not.
C23_Witness ==
    /\ lastOp = "modifyLines"
    /\ Len(Lines(value)) = 3
    /\ selectionStart < selectionEnd
    /\ selectionEnd = Lines(value)[3].start
    /\ LineSeparator(value, Lines(value)[2]) = <<CR, LF>>
    /\ lineResult.affectedLines = <<1, 2>>
    /\ lineResult.newContent # value

Has(s, c) == \E i \in 1 .. Len(s) : s[i] = c

\* What is between the brackets of a match
ContentOf(m) == SubSeq(m.data.raw, 3, Len(m.data.raw) - 2)

\* The segment after the first '|' of a content that has one, up to its
\* first '#': shown and rest make the segment, with no '#' in shown.
ShownIn(content, target, shown, sectionPart) ==
    /\ content = target \o <<"|">> \o shown \o sectionPart
    /\ ~Has(target, "|")
    /\ ~Has(shown, "#")

\* The section written after a segment: nothing for null, '#' and the section
SectionPart(section) == IF section.null THEN <<>> ELSE <<"#">> \o section.s

\* C25: a span parses to a link whose display is its target when the span has
\* no '|' or nothing between the '|' and the '#' or "]]" that follows, whose
\* section is null unless the span has a '#', and whose raw is the span as it
\* is in the text, brackets included; "Check [[Aragorn|Hero#appearance]]
\* today" has one match: Aragorn, Hero, appearance, raw the span.
C25_ParsedLink ==
    lastOp = "parse" =>
        /\ \A i \in 1 .. Len(matches) :
              LET m == matches[i]
                  content == ContentOf(m)
              IN  /\ m.data.raw = SubSeq(wikiText, m.matchStart + 1, m.matchEnd)
                  /\ SubSeq(m.data.raw, 1, 2) = Open
                  /\ SubSeq(m.data.raw, Len(m.data.raw) - 1, Len(m.data.raw)) = Close
                  /\ Len(m.data.raw) >= 4
                  /\ ~Has(content, "|") => m.data.display = m.data.target
                  /\ (\E sectionPart \in {<<>>} \cup {SubSeq(content, k, Len(content)) :
                                                       k \in 1 .. Len(content)} :
                         /\ ShownIn(content, m.data.target, <<>>, sectionPart)
                         /\ sectionPart # <<>> => sectionPart[1] = "#")
                     => m.data.display = m.data.target
                  /\ ~Has(content, "#") => m.data.section = Null
        /\ wikiText = CheckToday
           => /\ Len(matches) = 1
              /\ matches[1].data = [target |-> Aragorn, display |-> Hero,
                                    section |-> Str(Appearance), raw |-> AragornLink]

\* "a [[a|#a]] ...": a link with nothing between '|' and '#', parsed
C25_Witness ==
    /\ lastOp = "parse"
    /\ Len(matches) = 2
    /\ matches[1].matchStart = 1
    /\ ContentOf(matches[1]) = <<"a", "|", "#", "a">>
    /\ matches[1].data.display = <<"a">>
    /\ matches[1].data.section = Str(<<"a">>)

RoundTrip ==
    /\ Len(matches) >= 1
    /\ matches[1].data.target = wikiLink.target
    /\ matches[1].data.display = wikiLink.display
    /\ matches[1].data.section = wikiLink.section

Plain(s) == ~Has(s, "|") /\ ~Has(s, "#") /\ ~Has(s, "]")

====
